---- MODULE Spec2Model ----
(***************************************************************************)
(* Model of circleci-provisioning: the project client (project.go) and the *)
(* orchestrator (main.go).                                                 *)
(*                                                                         *)
(* Text that ends up in a request URI (project identity, variable names,   *)
(* resource and action) is a sequence of one-character strings, so that    *)
(* joining, cleaning and percent-encoding are computed character by        *)
(* character.  JSON payload texts that are only compared as a whole        *)
(* ("Build created", "ok") are plain strings.                              *)
(***************************************************************************)
EXTENDS Integers, Sequences, FiniteSets, TLC

VARIABLES
    pc,          \* position of main: "main", the phase being run, "done"
    exitCode,    \* exit code of the process once pc = "done"
    err,         \* main's err variable: the error of the last step, or Nil
    flags,       \* [unfollow, canonical, trigger]: the parsed command line
    config,      \* the Config read from the file
    project,     \* the CircleCIProject built by NewCircleCIProject
    todoEnv,     \* names of config.EnvVars the range loop has not visited
    todoKeys,    \* names of config.SSHKeys the range loop has not visited
    curKey,      \* the SSH key name of the loop iteration in progress
    envVars,     \* Clearenv's local map, as returned by Getenvs
    todoDel,     \* names of envVars the range loop has not visited
    openFiles,   \* key file handles opened and not yet closed
    trace,       \* every step executed so far: its request, response, error
    server       \* the remote project: [followed, env, keys, builds]

vars == <<pc, exitCode, err, flags, config, project, todoEnv, todoKeys, curKey,
          envVars, todoDel, openFiles, trace, server>>

----------------------------------------------------------------------------
(* Bounds *)

MaxEnvVars == 2     \* most environment variables a config lists
MaxSSHKeys == 2     \* most SSH keys a config lists
MaxSrvVars == 2     \* most variables the project holds before the run
MaxCalls == 2       \* most direct client calls of the harness

----------------------------------------------------------------------------
(* Texts *)

Empty == <<>>

sProject == <<"p","r","o","j","e","c","t">>
sResource == <<"r","e","s","o","u","r","c","e">>
sFollow == <<"f","o","l","l","o","w">>
sUnfollow == <<"u","n","f","o","l","l","o","w">>
sEnvvar == <<"e","n","v","v","a","r">>
sSSHKey == <<"s","s","h","-","k","e","y">>
sBuild == <<"b","u","i","l","d">>
sAction == <<"a","c","t","i","o","n">>
sGit == <<"g","i","t">>
sTest == <<"t","e","s","t">>
sOwner == <<"o","w","n","e","r">>
sProjectName == <<"p","r","o","j","e","c","t"," ","n","a","m","e">>
sToken == <<"t","o","k","e","n">>
sCircleToken == <<"c","i","r","c","l","e","-","t","o","k","e","n">>
sFOO == <<"F","O","O">>
sBAR == <<"B","A","R">>
sBAZ == <<"B","A","Z">>
sQUX == <<"Q","U","X">>
sbar == <<"b","a","r">>
squx == <<"q","u","x">>
sGithub == <<"g","i","t","h","u","b",".","c","o","m">>
sGitlab == <<"g","i","t","l","a","b",".","c","o","m">>
sBitbucket == <<"b","i","t","b","u","c","k","e","t",".","o","r","g">>
sDotDot == <<".",".">>

\* s occurs in t as a contiguous run of characters
Contains(t, s) ==
    \E i \in 1..(Len(t) - Len(s) + 1) : SubSeq(t, i, i + Len(s) - 1) = s

----------------------------------------------------------------------------
(* net/url and path, as fmtURI uses them *)

\* url.Parse("https://circleci.com/api/v1.1")
BaseURL ==
    [Scheme |-> <<"h","t","t","p","s">>,
     Host |-> <<"c","i","r","c","l","e","c","i",".","c","o","m">>,
     Path |-> <<"/","a","p","i","/","v","1",".","1">>,
     RawQuery |-> Empty]

\* the positions of character c in s, and the first of them
IndicesOf(s, c) == {i \in 1..Len(s) : s[i] = c}
FirstOf(idx) == CHOOSE i \in idx : \A j \in idx : i <= j

\* the elements of s between the separators "/"
RECURSIVE Split(_)
Split(s) ==
    LET idx == IndicesOf(s, "/")
    IN IF idx = {} THEN <<s>>
       ELSE <<SubSeq(s, 1, FirstOf(idx) - 1)>>
            \o Split(SubSeq(s, FirstOf(idx) + 1, Len(s)))

\* path.Clean on the elements of a rooted path: "" and "." are dropped,
\* ".." removes the element before it (and is dropped at the root)
RECURSIVE CleanElems(_, _)
CleanElems(elems, out) ==
    IF elems = <<>> THEN out
    ELSE LET e == Head(elems) IN
         IF e = Empty \/ e = <<".">> THEN CleanElems(Tail(elems), out)
         ELSE IF e = sDotDot
              THEN CleanElems(Tail(elems),
                              IF out = <<>> THEN out ELSE SubSeq(out, 1, Len(out) - 1))
              ELSE CleanElems(Tail(elems), Append(out, e))

RECURSIVE Rooted(_)
Rooted(elems) ==
    IF elems = <<>> THEN <<>> ELSE <<"/">> \o Head(elems) \o Rooted(Tail(elems))

\* the elements of all of elem, in order: what splitting the "/"-joined
\* elements gives
RECURSIVE SplitAll(_)
SplitAll(elem) ==
    IF elem = <<>> THEN <<>> ELSE Split(Head(elem)) \o SplitAll(Tail(elem))

\* path.Join whose first element is rooted: the elements joined by "/", cleaned
pathJoin(elem) ==
    LET cleaned == CleanElems(SplitAll(elem), <<>>)
    IN IF cleaned = <<>> THEN <<"/">> ELSE Rooted(cleaned)

\* url.escape in encodePath mode, for the characters the model uses
EscapeChar(c) ==
    IF c = " " THEN <<"%","2","0">>
    ELSE IF c = "?" THEN <<"%","3","F">>
    ELSE IF c = "%" THEN <<"%","2","5">>
    ELSE <<c>>

ShouldEscape(c) == EscapeChar(c) # <<c>>

\* URL.EscapedPath: every character that needs it is replaced by its escape
RECURSIVE EscapedPath(_)
EscapedPath(p) ==
    LET idx == {i \in 1..Len(p) : ShouldEscape(p[i])}
    IN IF idx = {} THEN p
       ELSE SubSeq(p, 1, FirstOf(idx) - 1) \o EscapeChar(p[FirstOf(idx)])
            \o EscapedPath(SubSeq(p, FirstOf(idx) + 1, Len(p)))

\* url.ParseQuery(u.RawQuery): a fresh Values map; the model's raw queries
\* hold at most one key=value pair
URLQuery(u) ==
    IF u.RawQuery = Empty THEN <<>>
    ELSE LET kv == u.RawQuery
             eq == CHOOSE i \in 1..Len(kv) : kv[i] = "="
         IN <<[key |-> SubSeq(kv, 1, eq - 1), val |-> SubSeq(kv, eq + 1, Len(kv))]>>

\* Values.Set: replaces the values of key in that map
ValuesSet(v, key, val) ==
    SelectSeq(v, LAMBDA e : e.key # key) \o <<[key |-> key, val |-> val]>>

\* URL.String
URLString(u) ==
    u.Scheme \o <<":","/","/">> \o u.Host \o EscapedPath(u.Path)
    \o (IF u.RawQuery = Empty THEN Empty ELSE <<"?">> \o u.RawQuery)

\* CircleCIProject.fmtURI: url.Query() hands out a copy parsed from RawQuery,
\* so the Set on it never reaches the URL that is printed
fmtURI(p, resource, action) ==
    LET u == [BaseURL EXCEPT
                !.Path = pathJoin(<<BaseURL.Path, resource, p.vcsType, p.owner,
                                    p.projectName, action>>)]
        q == ValuesSet(URLQuery(u), sCircleToken, p.token)
    IN URLString(u)

----------------------------------------------------------------------------
(* encoding/json, as the client uses it *)

UpperCase ==
    {"A","B","C","D","E","F","G","H","I","J","K","L","M",
     "N","O","P","Q","R","S","T","U","V","W","X","Y","Z"}

\* Go exports a struct field when its name starts with an upper-case letter;
\* encoding/json reads and writes exported fields only
IsExported(goName) == Head(goName) \in UpperCase

\* the struct types the client decodes into or encodes from: for each field
\* its Go name, its JSON key and its zero value
EnvResultFields ==
    <<[goName |-> <<"n","a","m","e">>, key |-> "name", zero |-> Empty],
      [goName |-> <<"v","a","l","u","e">>, key |-> "value", zero |-> Empty]>>

DeleteStatusFields ==
    <<[goName |-> <<"m","e","s","s","a","g","e">>, key |-> "message", zero |-> ""]>>

TriggerMessageFields ==
    <<[goName |-> <<"s","t","a","t","u","s">>, key |-> "status", zero |-> 0],
      [goName |-> <<"b","o","d","y">>, key |-> "body", zero |-> ""]>>

SSHKeyBodyFields ==
    <<[goName |-> <<"h","o","s","t","n","a","m","e">>, key |-> "hostname", zero |-> Empty],
      [goName |-> <<"p","r","i","v","a","t","e","K","e","y">>, key |-> "private_key",
       zero |-> ""]>>

FieldKeys(fields) == {fields[i].key : i \in DOMAIN fields}

FieldOf(fields, k) == fields[CHOOSE i \in DOMAIN fields : fields[i].key = k]

\* json.Unmarshal of one JSON object into a struct value: a field takes the
\* object's value only if it is exported, and keeps its zero value otherwise
DecodeStruct(obj, fields) ==
    [k \in FieldKeys(fields) |->
        IF IsExported(FieldOf(fields, k).goName) /\ k \in DOMAIN obj
        THEN obj[k] ELSE FieldOf(fields, k).zero]

\* json.Marshal of a struct value: the exported fields only
EncodeStruct(val, fields) ==
    LET keys == {k \in FieldKeys(fields) : IsExported(FieldOf(fields, k).goName)}
    IN [k \in keys |-> val[k]]

\* payloads: "none" (empty body), "text" (not JSON), "object", "array"
NoBody == [kind |-> "none"]
TextBody == [kind |-> "text"]
ObjectBody(obj) == [kind |-> "object", obj |-> obj]
ArrayBody(items) == [kind |-> "array", items |-> items]

\* json.Unmarshal(body, &struct): [err, val]
UnmarshalStruct(body, fields) ==
    IF body.kind = "object"
    THEN [err |-> FALSE, val |-> DecodeStruct(body.obj, fields)]
    ELSE [err |-> TRUE, val |-> DecodeStruct(<<>>, fields)]

\* json.Unmarshal(body, &[]struct): [err, val]
UnmarshalSlice(body, fields) ==
    IF body.kind = "array"
    THEN [err |-> FALSE,
          val |-> [i \in DOMAIN body.items |-> DecodeStruct(body.items[i], fields)]]
    ELSE [err |-> TRUE, val |-> <<>>]

----------------------------------------------------------------------------
(* HTTP *)

StatusOK == 200
StatusCreated == 201
StatusBadRequest == 400

NoReq == [method |-> "none"]
Request(method, uri, body) == [method |-> method, uri |-> uri, body |-> body]

\* what http.Post / http.Get / client.Do hands back: err, or a response
NoResp == [err |-> FALSE, status |-> 0, body |-> NoBody]
TransportError == [err |-> TRUE, status |-> 0, body |-> NoBody]
Response(status, body) == [err |-> FALSE, status |-> status, body |-> body]

\* errors: Nil, or the message's kind and the name it mentions
Nil == [kind |-> "nil", name |-> Empty]
Errorf(kind, name) == [kind |-> kind, name |-> name]

----------------------------------------------------------------------------
(* The project client *)

\* NewCircleCIProject
NewCircleCIProject(vcsType, owner, projectName, token) ==
    [vcsType |-> vcsType, owner |-> owner, projectName |-> projectName,
     token |-> token]

FollowRequest(p) == Request("POST", fmtURI(p, sProject, sFollow), NoBody)

\* a Follow that takes any status below 400 for success
Follow_anySuccessStatus(p, resp) ==
    IF resp.err THEN Errorf("could not follow project", Empty)
    ELSE IF resp.status >= StatusBadRequest
         THEN Errorf("could not follow project", Empty)
         ELSE Nil

\* CircleCIProject.Follow, given the outcome of its http.Post
Follow(p, resp) ==
    IF resp.err THEN Errorf("could not follow project", Empty)
    ELSE IF resp.status # StatusCreated
         THEN Errorf("could not follow project", Empty)
         ELSE Nil

UnfollowRequest(p) == Request("POST", fmtURI(p, sProject, sUnfollow), NoBody)

\* CircleCIProject.Unfollow, given the outcome of its client.Post
Unfollow(p, resp) ==
    IF resp.err THEN Errorf("could not unfollow project", Empty)
    ELSE IF resp.status # StatusOK
         THEN Errorf("expected status 200", Empty)
         ELSE Nil

\* the body Setenv formats with Sprintf: both values are written as given
SetenvRequest(p, name, value) ==
    Request("POST", fmtURI(p, sProject, sEnvvar),
            ObjectBody([name |-> name, value |-> value]))

\* a Setenv that takes any status below 400 for success
Setenv_anySuccessStatus(p, name, value, resp) ==
    IF resp.err THEN Errorf("could not create environment variable", name)
    ELSE IF resp.status >= StatusBadRequest
         THEN Errorf("environment variable not created", name)
         ELSE Nil

\* CircleCIProject.Setenv, given the outcome of its http.Post
Setenv(p, name, value, resp) ==
    IF resp.err THEN Errorf("could not create environment variable", name)
    ELSE IF resp.status # StatusCreated
         THEN Errorf("environment variable not created", name)
         ELSE Nil

GetenvsRequest(p) == Request("GET", fmtURI(p, sProject, sEnvvar), NoBody)

\* the map Getenvs fills from the decoded records, in their order: a later
\* record overwrites an earlier one of the same name
RECURSIVE FillMap(_, _)
FillMap(results, m) ==
    IF results = <<>> THEN m
    ELSE LET r == Head(results)
         IN FillMap(Tail(results),
                    [k \in DOMAIN m \cup {r.name} |->
                        IF k = r.name THEN r.value ELSE m[k]])

\* CircleCIProject.Getenvs, given the outcome of its http.Get: [err, val]
Getenvs(p, resp) ==
    IF resp.err
    THEN [err |-> Errorf("could not get environment variables", Empty), val |-> <<>>]
    ELSE IF resp.status # StatusOK
    THEN [err |-> Errorf("could not get environment variables", Empty), val |-> <<>>]
    ELSE LET results == UnmarshalSlice(resp.body, EnvResultFields)
         IN IF results.err
            THEN [err |-> Errorf("could not unmarshall response body", Empty),
                  val |-> <<>>]
            ELSE [err |-> Nil, val |-> FillMap(results.val, <<>>)]

\* Deleteenv addresses the envvar collection: name is not part of the URI
DeleteenvRequest(p, name) == Request("DELETE", fmtURI(p, sProject, sEnvvar), NoBody)

\* CircleCIProject.Deleteenv, given the outcome of its client.Do
Deleteenv(p, name, resp) ==
    IF resp.err THEN Errorf("could not remove environment variable", name)
    ELSE IF resp.status # StatusOK
    THEN Errorf("could not remove environment variable", name)
    ELSE LET status == UnmarshalStruct(resp.body, DeleteStatusFields)
         IN IF status.err THEN Errorf("could not unmarshal response", name)
            ELSE IF status.val.message # "ok"
                 THEN Errorf("failed to remove environment variable", name)
                 ELSE Nil

AddSSHKeyRequest(p, name, privateKey) ==
    Request("POST", fmtURI(p, sProject, sSSHKey),
            ObjectBody(EncodeStruct([hostname |-> name, private_key |-> privateKey],
                                    SSHKeyBodyFields)))

\* CircleCIProject.AddSSHKey, given the outcome of its http.Post
AddSSHKey(p, name, privateKey, resp) ==
    IF resp.err THEN Errorf("could not add ssh key", name)
    ELSE IF resp.status # StatusCreated
         THEN Errorf("expected status code 201", Empty)
         ELSE Nil

TriggerRequest(p) == Request("POST", fmtURI(p, sProject, sBuild), NoBody)

\* a Trigger that does not look at the response body
Trigger_statusOnly(p, resp) ==
    IF resp.err THEN Errorf("could not trigger build", Empty)
    ELSE IF resp.status # StatusCreated
         THEN Errorf("unexpected status code", Empty)
         ELSE Nil

\* CircleCIProject.Trigger, given the outcome of its http.Post
Trigger(p, resp) ==
    IF resp.err THEN Errorf("could not trigger build", Empty)
    ELSE IF resp.status # StatusCreated
    THEN Errorf("unexpected status code", Empty)
    ELSE LET message == UnmarshalStruct(resp.body, TriggerMessageFields)
         IN IF message.err THEN Errorf("failed to unmarshal response body", Empty)
            ELSE IF message.val.status # 200
                 THEN Errorf("expected message status to be '200'", Empty)
            ELSE IF message.val.body # "Build created"
                 THEN Errorf("expected message body to be 'Build created", Empty)
                 ELSE Nil

\* CircleCIProject.ClearSSHKeys
ClearSSHKeys(p) == Errorf("Not implemented", Empty)

----------------------------------------------------------------------------
(* The upstream API, as far as the client depends on it *)

\* the URI up to its query
BeforeQuery(uri) ==
    LET idx == IndicesOf(uri, "?")
    IN IF idx = {} THEN uri ELSE SubSeq(uri, 1, FirstOf(idx) - 1)

\* https: / / host / api / v1.1 / resource / vcs / owner / project / action [/ name]
ActionIndex == 10

\* how the API reads a request URI: the action addressed and, if the path
\* goes on after it, the name addressed
Route(uri) ==
    LET elems == Split(BeforeQuery(uri))
    IN [action |-> IF Len(elems) >= ActionIndex THEN elems[ActionIndex] ELSE Empty,
        hasName |-> Len(elems) > ActionIndex,
        name |-> IF Len(elems) > ActionIndex THEN elems[ActionIndex + 1] ELSE Empty]

\* the records of a variable list, in some order
RECURSIVE EnvRecords(_)
EnvRecords(env) ==
    IF DOMAIN env = {} THEN <<>>
    ELSE LET n == CHOOSE n \in DOMAIN env : TRUE
         IN <<[name |-> n, value |-> env[n]]>>
            \o EnvRecords([k \in DOMAIN env \ {n} |-> env[k]])

\* the status that answers an accepted request
AcceptStatus(req, route) ==
    IF req.method = "POST" /\ route.action # sUnfollow
    THEN StatusCreated ELSE StatusOK

\* the body that answers an accepted request
AcceptBody(req, route, srv) ==
    IF req.method = "GET" THEN ArrayBody(EnvRecords(srv.env))
    ELSE IF req.method = "DELETE" THEN ObjectBody([message |-> "ok"])
    ELSE IF route.action = sBuild
         THEN ObjectBody([status |-> 200, body |-> "Build created"])
         ELSE TextBody

\* a well-formed body that reports something else
OtherBody(req) ==
    IF req.method = "GET" THEN ObjectBody([message |-> "Project not found"])
    ELSE IF req.method = "DELETE" THEN ObjectBody([message |-> "Variable not found"])
    ELSE ObjectBody([status |-> 500, body |-> "Build failed"])

\* the project after an accepted request
AcceptEffect(req, route, srv) ==
    IF req.method = "POST" /\ route.action = sFollow
    THEN [srv EXCEPT !.followed = TRUE]
    ELSE IF req.method = "POST" /\ route.action = sUnfollow
    THEN [srv EXCEPT !.followed = FALSE]
    ELSE IF req.method = "POST" /\ route.action = sEnvvar
    THEN [srv EXCEPT !.env = [k \in DOMAIN srv.env \cup {req.body.obj.name} |->
                                 IF k = req.body.obj.name THEN req.body.obj.value
                                 ELSE srv.env[k]]]
    ELSE IF req.method = "DELETE" /\ route.action = sEnvvar /\ route.hasName
    THEN [srv EXCEPT !.env = [k \in DOMAIN srv.env \ {route.name} |-> srv.env[k]]]
    ELSE IF req.method = "POST" /\ route.action = sSSHKey
            /\ "hostname" \in DOMAIN req.body.obj
    THEN [srv EXCEPT !.keys = srv.keys \cup {req.body.obj.hostname}]
    ELSE IF req.method = "POST" /\ route.action = sBuild
    THEN [srv EXCEPT !.builds = TRUE]
    ELSE srv

\* what can happen to a request; the last two only where the client parses
\* the body of the response (Getenvs, Deleteenv, Trigger)
Outcomes == {"accept", "wrongstatus", "status400", "neterr"}
BodyOutcomes == {"malformed", "otherbody"}

\* the response to req and the project afterwards: [resp, srv]
Exchange(req, srv, outcome) ==
    LET route == Route(req.uri) IN
    IF outcome = "accept"
    THEN [resp |-> Response(AcceptStatus(req, route), AcceptBody(req, route, srv)),
          srv |-> AcceptEffect(req, route, srv)]
    ELSE IF outcome = "wrongstatus"
    THEN [resp |-> Response(IF AcceptStatus(req, route) = StatusOK
                            THEN StatusCreated ELSE StatusOK,
                            AcceptBody(req, route, srv)),
          srv |-> srv]
    ELSE IF outcome = "status400"
    THEN [resp |-> Response(StatusBadRequest, TextBody), srv |-> srv]
    ELSE IF outcome = "malformed"
    THEN [resp |-> Response(AcceptStatus(req, route), TextBody), srv |-> srv]
    ELSE IF outcome = "otherbody"
    THEN [resp |-> Response(AcceptStatus(req, route), OtherBody(req)), srv |-> srv]
    ELSE [resp |-> TransportError, srv |-> srv]

----------------------------------------------------------------------------
(* Inputs *)

Identities ==
    {[VcsType |-> sGit, Owner |-> sTest, ProjectName |-> sTest],
     [VcsType |-> sGit, Owner |-> sOwner, ProjectName |-> sProjectName]}

\* the names a config can list, each with its value / key file
EnvNameList == <<sFOO, sBAR, sBAZ, sQUX>>
EnvValueOf(name) == IF name = sFOO THEN sbar ELSE squx
KeyNameList == <<sGithub, sGitlab, sBitbucket>>
KeyPathOf(name) == <<"/">> \o name \o <<".","p","e","m">>
KeyContentOf(path) == "PRIVATE KEY"

\* the variables the project can hold before the run: one the configs list
\* too (with another value) and others they do not list
SrvNameList == <<sFOO, sQUX, sBAZ>>
SrvValueOf(name) == <<"o","l","d">>

Range(seq, n) == {seq[i] : i \in 1..(IF n < Len(seq) THEN n ELSE Len(seq))}

Configs ==
    {[VcsType |-> id.VcsType, Owner |-> id.Owner, ProjectName |-> id.ProjectName,
      EnvVars |-> [n \in names |-> EnvValueOf(n)],
      SSHKeys |-> [k \in keys |-> KeyPathOf(k)]] :
        id \in Identities,
        names \in SUBSET Range(EnvNameList, MaxEnvVars),
        keys \in SUBSET Range(KeyNameList, MaxSSHKeys)}

Servers ==
    {[followed |-> FALSE, env |-> [n \in names |-> SrvValueOf(n)], keys |-> {},
      builds |-> FALSE] : names \in SUBSET Range(SrvNameList, MaxSrvVars)}

Flags == [unfollow : BOOLEAN, canonical : BOOLEAN, trigger : BOOLEAN]

----------------------------------------------------------------------------
(* The orchestrator: main and its helpers *)

Running == 0 - 1

Init ==
    /\ pc = "main"
    /\ exitCode = Running
    /\ err = Nil
    /\ flags \in Flags
    /\ config \in Configs
    /\ project = NewCircleCIProject(config.VcsType, config.Owner,
                                    config.ProjectName, sToken)
    /\ todoEnv = DOMAIN config.EnvVars
    /\ todoKeys = DOMAIN config.SSHKeys
    /\ curKey = Empty
    /\ envVars = <<>>
    /\ todoDel = {}
    /\ openFiles = {}
    /\ trace = <<>>
    /\ server \in Servers

\* one line of the trace: the step, its arguments, the request it issued (if
\* any) with what became of it, and the error the step returned
Entry(step, args, req, outcome, resp, e) ==
    [step |-> step, args |-> args, req |-> req, outcome |-> outcome,
     resp |-> resp, err |-> e]

\* a main that cleans the project whether or not canonical is requested
PhaseAfter_alwaysClean(phase, f, c) ==
    IF phase = "follow" THEN "clearenv"
    ELSE IF phase = "clean"
    THEN IF DOMAIN c.EnvVars # {} THEN "setenv"
         ELSE IF DOMAIN c.SSHKeys # {} THEN "openkey"
         ELSE IF f.trigger THEN "trigger" ELSE "done"
    ELSE IF phase = "setenv"
    THEN IF DOMAIN c.SSHKeys # {} THEN "openkey"
         ELSE IF f.trigger THEN "trigger" ELSE "done"
    ELSE IF phase = "sshkeys"
    THEN IF f.trigger THEN "trigger" ELSE "done"
    ELSE "done"

\* a main that does not call addSSHKeys
PhaseAfter_skipKeys(phase, f, c) ==
    IF phase = "follow"
    THEN IF f.canonical THEN "clearenv"
         ELSE IF DOMAIN c.EnvVars # {} THEN "setenv"
         ELSE IF f.trigger THEN "trigger" ELSE "done"
    ELSE IF phase = "clean"
    THEN IF DOMAIN c.EnvVars # {} THEN "setenv"
         ELSE IF f.trigger THEN "trigger" ELSE "done"
    ELSE IF phase = "setenv"
    THEN IF f.trigger THEN "trigger" ELSE "done"
    ELSE "done"

\* a main that adds the SSH keys before it sets the environment variables
PhaseAfter_keysFirst(phase, f, c) ==
    IF phase = "follow"
    THEN IF f.canonical THEN "clearenv"
         ELSE IF DOMAIN c.SSHKeys # {} THEN "openkey"
         ELSE IF DOMAIN c.EnvVars # {} THEN "setenv"
         ELSE IF f.trigger THEN "trigger" ELSE "done"
    ELSE IF phase = "clean"
    THEN IF DOMAIN c.SSHKeys # {} THEN "openkey"
         ELSE IF DOMAIN c.EnvVars # {} THEN "setenv"
         ELSE IF f.trigger THEN "trigger" ELSE "done"
    ELSE IF phase = "sshkeys"
    THEN IF DOMAIN c.EnvVars # {} THEN "setenv"
         ELSE IF f.trigger THEN "trigger" ELSE "done"
    ELSE IF phase = "setenv"
    THEN IF f.trigger THEN "trigger" ELSE "done"
    ELSE "done"

\* where main goes once a phase has returned without error: follow, then
\* cleanProject if canonical, then setEnvVars, then addSSHKeys, then Trigger
\* if requested; a range loop over an empty map is passed over
PhaseAfter(phase, f, c) ==
    IF phase = "follow"
    THEN IF f.canonical THEN "clearenv"
         ELSE IF DOMAIN c.EnvVars # {} THEN "setenv"
         ELSE IF DOMAIN c.SSHKeys # {} THEN "openkey"
         ELSE IF f.trigger THEN "trigger" ELSE "done"
    ELSE IF phase = "clean"
    THEN IF DOMAIN c.EnvVars # {} THEN "setenv"
         ELSE IF DOMAIN c.SSHKeys # {} THEN "openkey"
         ELSE IF f.trigger THEN "trigger" ELSE "done"
    ELSE IF phase = "setenv"
    THEN IF DOMAIN c.SSHKeys # {} THEN "openkey"
         ELSE IF f.trigger THEN "trigger" ELSE "done"
    ELSE IF phase = "sshkeys"
    THEN IF f.trigger THEN "trigger" ELSE "done"
    ELSE "done"

\* a main that issues the request of a failed step again
AfterStep_retry(e, next) ==
    /\ err' = e
    /\ pc' = IF e # Nil THEN pc ELSE next
    /\ exitCode' = IF e = Nil /\ next = "done" THEN 0 ELSE Running

\* a main that logs the error of a step and carries on
AfterStep_ignoreError(e, next) ==
    /\ err' = e
    /\ pc' = next
    /\ exitCode' = IF next = "done" THEN 0 ELSE Running

\* main after a step: log.Fatalf (exit code 1) on an error, else on to next;
\* falling off the end of main is exit code 0
AfterStep(e, next) ==
    /\ err' = e
    /\ pc' = IF e # Nil THEN "done" ELSE next
    /\ exitCode' = IF e # Nil THEN 1 ELSE IF next = "done" THEN 0 ELSE Running

\* a main that lacks the return after Unfollow and carries on with the run
AfterUnfollow_carriesOn(e, f, c) ==
    /\ pc' = PhaseAfter("follow", f, c)
    /\ exitCode' = IF PhaseAfter("follow", f, c) = "done" THEN 0 ELSE Running

\* main after project.Unfollow(): its error is dropped and main returns, which
\* is exit code 0, whatever the other flags and the config say
AfterUnfollow(e, f, c) ==
    /\ pc' = "done"
    /\ exitCode' = 0

\* main, unfollow requested: the error of Unfollow is dropped and main returns
MainUnfollow ==
    /\ pc = "main" /\ flags.unfollow
    /\ \E outcome \in Outcomes :
         LET req == UnfollowRequest(project)
             x == Exchange(req, server, outcome)
             e == Unfollow(project, x.resp)
         IN /\ trace' = Append(trace, Entry("unfollow", <<>>, req, outcome, x.resp, e))
            /\ server' = x.srv
            /\ AfterUnfollow(e, flags, config)
    /\ UNCHANGED <<err, flags, config, project, todoEnv, todoKeys, curKey, envVars,
                   todoDel, openFiles>>

\* main: project.Follow()
MainFollow ==
    /\ pc = "main" /\ ~flags.unfollow
    /\ \E outcome \in Outcomes :
         LET req == FollowRequest(project)
             x == Exchange(req, server, outcome)
             e == Follow(project, x.resp)
         IN /\ trace' = Append(trace, Entry("follow", <<>>, req, outcome, x.resp, e))
            /\ server' = x.srv
            /\ AfterStep(e, PhaseAfter("follow", flags, config))
    /\ UNCHANGED <<flags, config, project, todoEnv, todoKeys, curKey, envVars,
                   todoDel, openFiles>>

\* cleanProject, Clearenv: p.Getenvs()
ClearenvGetenvs ==
    /\ pc = "clearenv"
    /\ \E outcome \in Outcomes \cup BodyOutcomes :
         LET req == GetenvsRequest(project)
             x == Exchange(req, server, outcome)
             r == Getenvs(project, x.resp)
         IN /\ trace' = Append(trace, Entry("getenvs", <<>>, req, outcome, x.resp, r.err))
            /\ server' = x.srv
            /\ envVars' = r.val
            /\ todoDel' = DOMAIN r.val
            /\ AfterStep(r.err, IF DOMAIN r.val = {} THEN "clearsshkeys"
                                ELSE "deleteenv")
    /\ UNCHANGED <<flags, config, project, todoEnv, todoKeys, curKey, openFiles>>

\* cleanProject, Clearenv: one turn of the range loop, p.Deleteenv(name)
ClearenvDeleteenv ==
    /\ pc = "deleteenv"
    /\ \E name \in todoDel :
       \E outcome \in Outcomes \cup BodyOutcomes :
         LET req == DeleteenvRequest(project, name)
             x == Exchange(req, server, outcome)
             e == Deleteenv(project, name, x.resp)
         IN /\ trace' = Append(trace, Entry("deleteenv", <<name>>, req, outcome, x.resp, e))
            /\ server' = x.srv
            /\ todoDel' = todoDel \ {name}
            /\ AfterStep(e, IF todoDel \ {name} = {} THEN "clearsshkeys"
                            ELSE "deleteenv")
    /\ UNCHANGED <<flags, config, project, todoEnv, todoKeys, curKey, envVars,
                   openFiles>>

\* cleanProject: project.ClearSSHKeys()
CleanClearSSHKeys ==
    /\ pc = "clearsshkeys"
    /\ LET e == ClearSSHKeys(project)
       IN /\ trace' = Append(trace, Entry("clearsshkeys", <<>>, NoReq, "none", NoResp, e))
          /\ AfterStep(e, PhaseAfter("clean", flags, config))
    /\ UNCHANGED <<flags, config, project, todoEnv, todoKeys, curKey, envVars,
                   todoDel, openFiles, server>>

\* setEnvVars: one turn of the range loop, project.Setenv(k, v)
SetEnvVars ==
    /\ pc = "setenv"
    /\ \E k \in todoEnv :
       \E outcome \in Outcomes :
         LET v == config.EnvVars[k]
             req == SetenvRequest(project, k, v)
             x == Exchange(req, server, outcome)
             e == Setenv(project, k, v, x.resp)
         IN /\ trace' = Append(trace, Entry("setenv", <<k, v>>, req, outcome, x.resp, e))
            /\ server' = x.srv
            /\ todoEnv' = todoEnv \ {k}
            /\ AfterStep(e, IF todoEnv \ {k} = {}
                            THEN PhaseAfter("setenv", flags, config) ELSE "setenv")
    /\ UNCHANGED <<flags, config, project, todoKeys, curKey, envVars, todoDel,
                   openFiles>>

\* addSSHKeys: the closes are deferred, and run when addSSHKeys returns
CloseAfterRead(files, path, returns) == IF returns THEN {} ELSE files

\* addSSHKeys: one turn of the range loop, os.Open(path) and defer fh.Close()
AddSSHKeysOpen ==
    /\ pc = "openkey"
    /\ \E name \in todoKeys : \E opened \in BOOLEAN :
         LET path == config.SSHKeys[name]
             e == IF opened THEN Nil ELSE Errorf("could not open SSH key", path)
         IN /\ trace' = Append(trace, Entry("open", <<name, path>>, NoReq, "none", NoResp, e))
            /\ curKey' = name
            /\ todoKeys' = todoKeys \ {name}
            /\ openFiles' = IF opened THEN openFiles \cup {path} ELSE {}
            /\ AfterStep(e, "readkey")
    /\ UNCHANGED <<flags, config, project, todoEnv, envVars, todoDel, server>>

\* addSSHKeys: ioutil.ReadAll(fh)
AddSSHKeysRead ==
    /\ pc = "readkey"
    /\ \E read \in BOOLEAN :
         LET path == config.SSHKeys[curKey]
             e == IF read THEN Nil ELSE Errorf("could not read SSH Key", path)
         IN /\ trace' = Append(trace, Entry("read", <<curKey, path>>, NoReq, "none", NoResp, e))
            /\ openFiles' = CloseAfterRead(openFiles, path, ~read)
            /\ AfterStep(e, "addkey")
    /\ UNCHANGED <<flags, config, project, todoEnv, todoKeys, curKey, envVars,
                   todoDel, server>>

\* addSSHKeys: project.AddSSHKey(name, string(content))
AddSSHKeysAdd ==
    /\ pc = "addkey"
    /\ \E outcome \in Outcomes :
         LET content == KeyContentOf(config.SSHKeys[curKey])
             req == AddSSHKeyRequest(project, curKey, content)
             x == Exchange(req, server, outcome)
             e == AddSSHKey(project, curKey, content, x.resp)
             last == todoKeys = {}
         IN /\ trace' = Append(trace, Entry("addsshkey", <<curKey>>, req, outcome, x.resp, e))
            /\ server' = x.srv
            /\ openFiles' = IF e # Nil \/ last THEN {} ELSE openFiles
            /\ AfterStep(e, IF last THEN PhaseAfter("sshkeys", flags, config)
                            ELSE "openkey")
    /\ UNCHANGED <<flags, config, project, todoEnv, todoKeys, curKey, envVars,
                   todoDel>>

\* main: project.Trigger()
MainTrigger ==
    /\ pc = "trigger"
    /\ \E outcome \in Outcomes \cup BodyOutcomes :
         LET req == TriggerRequest(project)
             x == Exchange(req, server, outcome)
             e == Trigger(project, x.resp)
         IN /\ trace' = Append(trace, Entry("trigger", <<>>, req, outcome, x.resp, e))
            /\ server' = x.srv
            /\ AfterStep(e, PhaseAfter("trigger", flags, config))
    /\ UNCHANGED <<flags, config, project, todoEnv, todoKeys, curKey, envVars,
                   todoDel, openFiles>>

Next ==
    \/ MainUnfollow
    \/ MainFollow
    \/ ClearenvGetenvs
    \/ ClearenvDeleteenv
    \/ CleanClearSSHKeys
    \/ SetEnvVars
    \/ AddSSHKeysOpen
    \/ AddSSHKeysRead
    \/ AddSSHKeysAdd
    \/ MainTrigger

Spec == Init /\ [][Next]_vars

----------------------------------------------------------------------------
(* The client on its own: its methods called directly, as its tests do *)

Resources == {sProject, sResource}
Actions == {sFollow, sAction}

InitClient ==
    /\ pc = "client"
    /\ exitCode = Running
    /\ err = Nil
    /\ flags = [unfollow |-> FALSE, canonical |-> FALSE, trigger |-> FALSE]
    /\ config \in {c \in Configs : c.EnvVars = <<>> /\ c.SSHKeys = <<>>}
    /\ project = NewCircleCIProject(config.VcsType, config.Owner,
                                    config.ProjectName, sToken)
    /\ todoEnv = {}
    /\ todoKeys = {}
    /\ curKey = Empty
    /\ envVars = <<>>
    /\ todoDel = {}
    /\ openFiles = {}
    /\ trace = <<>>
    /\ server \in {srv \in Servers :
                     DOMAIN srv.env = Range(SrvNameList, MaxSrvVars)}

\* one direct call: the request goes out, the project answers, and the call
\* is written down with the error the method returned
Called(step, args, req, outcome, x, e) ==
    /\ trace' = Append(trace, Entry(step, args, req, outcome, x.resp, e))
    /\ server' = x.srv

ClientFrame ==
    UNCHANGED <<pc, exitCode, err, flags, config, project, todoEnv, todoKeys,
                curKey, envVars, todoDel, openFiles>>

CallFmtURI ==
    /\ pc = "client" /\ Len(trace) < MaxCalls
    /\ \E resource \in Resources : \E action \in Actions :
         trace' = Append(trace,
                         Entry("fmtURI", <<resource, action>>,
                               Request("none", fmtURI(project, resource, action),
                                       NoBody),
                               "none", NoResp, Nil))
    /\ UNCHANGED server
    /\ ClientFrame

CallFollow ==
    /\ pc = "client" /\ Len(trace) < MaxCalls
    /\ \E outcome \in Outcomes :
         LET req == FollowRequest(project)
             x == Exchange(req, server, outcome)
         IN Called("follow", <<>>, req, outcome, x, Follow(project, x.resp))
    /\ ClientFrame

CallUnfollow ==
    /\ pc = "client" /\ Len(trace) < MaxCalls
    /\ \E outcome \in Outcomes :
         LET req == UnfollowRequest(project)
             x == Exchange(req, server, outcome)
         IN Called("unfollow", <<>>, req, outcome, x, Unfollow(project, x.resp))
    /\ ClientFrame

CallSetenv ==
    /\ pc = "client" /\ Len(trace) < MaxCalls
    /\ \E name \in Range(EnvNameList, MaxEnvVars) : \E outcome \in Outcomes :
         LET value == EnvValueOf(name)
             req == SetenvRequest(project, name, value)
             x == Exchange(req, server, outcome)
         IN Called("setenv", <<name, value>>, req, outcome, x,
                   Setenv(project, name, value, x.resp))
    /\ ClientFrame

CallGetenvs ==
    /\ pc = "client" /\ Len(trace) < MaxCalls
    /\ \E outcome \in Outcomes \cup BodyOutcomes :
         LET req == GetenvsRequest(project)
             x == Exchange(req, server, outcome)
             r == Getenvs(project, x.resp)
         IN /\ Called("getenvs", <<>>, req, outcome, x, r.err)
            /\ envVars' = r.val
    /\ UNCHANGED <<pc, exitCode, err, flags, config, project, todoEnv, todoKeys,
                   curKey, todoDel, openFiles>>

CallDeleteenv ==
    /\ pc = "client" /\ Len(trace) < MaxCalls
    /\ \E name \in Range(SrvNameList, MaxSrvVars) :
       \E outcome \in Outcomes \cup BodyOutcomes :
         LET req == DeleteenvRequest(project, name)
             x == Exchange(req, server, outcome)
         IN Called("deleteenv", <<name>>, req, outcome, x,
                   Deleteenv(project, name, x.resp))
    /\ ClientFrame

CallAddSSHKey ==
    /\ pc = "client" /\ Len(trace) < MaxCalls
    /\ \E name \in Range(KeyNameList, MaxSSHKeys) : \E outcome \in Outcomes :
         LET content == KeyContentOf(KeyPathOf(name))
             req == AddSSHKeyRequest(project, name, content)
             x == Exchange(req, server, outcome)
         IN Called("addsshkey", <<name>>, req, outcome, x,
                   AddSSHKey(project, name, content, x.resp))
    /\ ClientFrame

CallTrigger ==
    /\ pc = "client" /\ Len(trace) < MaxCalls
    /\ \E outcome \in Outcomes \cup BodyOutcomes :
         LET req == TriggerRequest(project)
             x == Exchange(req, server, outcome)
         IN Called("trigger", <<>>, req, outcome, x, Trigger(project, x.resp))
    /\ ClientFrame

NextClient ==
    \/ CallFmtURI
    \/ CallFollow
    \/ CallUnfollow
    \/ CallSetenv
    \/ CallGetenvs
    \/ CallDeleteenv
    \/ CallAddSSHKey
    \/ CallTrigger

SpecClient == InitClient /\ [][NextClient]_vars

----------------------------------------------------------------------------
(* Properties *)

IsRequest(e) == e.req.method # "none"
Steps(step) == {i \in DOMAIN trace : trace[i].step = step}
Last == trace[Len(trace)]

\* the phase of a request in the order of main
PhaseOf(step) ==
    IF step = "follow" THEN 1
    ELSE IF step \in {"getenvs", "deleteenv"} THEN 2
    ELSE IF step = "setenv" THEN 3
    ELSE IF step = "addsshkey" THEN 4
    ELSE 5

\* the names a step has been requested for, with success, before position j
DoneBefore(step, j) ==
    {trace[i].args[1] : i \in {i \in Steps(step) : i < j /\ trace[i].err = Nil}}

\* C1: in a run without unfollow the requests go out in the order follow,
\* clearing requests (canonical mode only), setEnv for the configured
\* variables, addSSHKey for the configured keys, build (only if trigger is
\* requested), and a request of a later phase goes out only after every
\* request of the earlier phases has returned success.
C1_RequestOrder ==
    (pc # "client" /\ ~flags.unfollow) =>
        /\ \A i \in DOMAIN trace : IsRequest(trace[i]) =>
             /\ trace[i].step \in {"follow", "getenvs", "deleteenv", "setenv",
                                   "addsshkey", "trigger"}
             /\ trace[i].step \in {"getenvs", "deleteenv"} => flags.canonical
             /\ trace[i].step = "trigger" => flags.trigger
             /\ trace[i].step = "setenv" => trace[i].args[1] \in DOMAIN config.EnvVars
             /\ trace[i].step = "addsshkey" =>
                    trace[i].args[1] \in DOMAIN config.SSHKeys
        /\ Cardinality(Steps("follow")) <= 1
        /\ Cardinality(Steps("trigger")) <= 1
        /\ \A i, j \in DOMAIN trace :
             (i < j /\ IsRequest(trace[i]) /\ IsRequest(trace[j])) =>
                /\ PhaseOf(trace[i].step) <= PhaseOf(trace[j].step)
                /\ PhaseOf(trace[i].step) < PhaseOf(trace[j].step) =>
                       trace[i].err = Nil
        /\ \A j \in DOMAIN trace : IsRequest(trace[j]) =>
             /\ PhaseOf(trace[j].step) > 1 =>
                    \E i \in Steps("follow") : i < j /\ trace[i].err = Nil
             /\ (PhaseOf(trace[j].step) > 2 /\ flags.canonical) =>
                    \E i \in Steps("getenvs") : i < j /\ trace[i].err = Nil
             /\ PhaseOf(trace[j].step) > 3 =>
                    DoneBefore("setenv", j) = DOMAIN config.EnvVars
             /\ PhaseOf(trace[j].step) > 4 =>
                    DoneBefore("addsshkey", j) = DOMAIN config.SSHKeys

\* a run that went through follow, setEnv and addSSHKey and issued the build
C1_Witness ==
    /\ pc = "done" /\ ~flags.unfollow
    /\ Steps("follow") # {} /\ Steps("setenv") # {} /\ Steps("addsshkey") # {}
    /\ Steps("trigger") # {}

\* C2: in a run without unfollow, the first step that returns an error is the
\* last step of the run (no request follows it) and the process ends with a
\* non-zero exit code; the exit code is 0 only if every step returned success.
C2_FatalOnError ==
    (pc # "client" /\ ~flags.unfollow) =>
        /\ \A i \in DOMAIN trace : trace[i].err # Nil =>
             i = Len(trace) /\ pc = "done" /\ exitCode # 0
        /\ (pc = "done" /\ exitCode = 0) =>
             \A i \in DOMAIN trace : trace[i].err = Nil

\* a run that a failed setEnv ended while variables and keys were still to do
C2_Witness ==
    /\ pc = "done" /\ ~flags.unfollow /\ exitCode = 1
    /\ trace # <<>> /\ Last.step = "setenv" /\ Last.err # Nil
    /\ todoEnv # {} /\ todoKeys # {} /\ flags.trigger

\* C3: when unfollow is requested and Unfollow returns an error, the process
\* ends with a non-zero exit code.
C3_UnfollowFatal ==
    (pc = "done" /\ flags.unfollow) =>
        \A i \in Steps("unfollow") : trace[i].err # Nil => exitCode # 0

\* the server accepted every request of the run
AllAccepted ==
    \A i \in DOMAIN trace : IsRequest(trace[i]) => trace[i].outcome = "accept"

\* C4: a canonical run in which the server accepts every request ends with
\* exit code 0 and leaves the project with exactly the configured variables,
\* each at its configured value.
C4_CanonicalConverges ==
    (pc = "done" /\ ~flags.unfollow /\ flags.canonical /\ AllAccepted) =>
        /\ exitCode = 0
        /\ server.env = config.EnvVars

\* C5: Follow returns success if and only if the transport call succeeded
\* and the status of the response is exactly 201.
C5_FollowIff201 ==
    \A i \in Steps("follow") :
        trace[i].err = Nil <=>
            (~trace[i].resp.err /\ trace[i].resp.status = 201)

\* Follow has succeeded on a 201 and has failed on a 200
C5_Witness ==
    /\ \E i \in Steps("follow") : trace[i].err = Nil /\ trace[i].resp.status = 201
    /\ \E i \in Steps("follow") : trace[i].err # Nil /\ trace[i].resp.status = 200

\* the names the server listed in answer to the list request at position i
Listed(i) ==
    {trace[i].resp.body.items[k].name : k \in DOMAIN trace[i].resp.body.items}

\* C6: Clearenv on a project that lists two distinct variables issues one
\* delete call per listed variable, each for the name of a listed variable,
\* and stops at the first delete call that fails.
C6_ClearenvDeletesEach ==
    \A g \in Steps("getenvs") :
        (pc # "client" /\ trace[g].outcome = "accept" /\ Cardinality(Listed(g)) = 2)
        =>
        LET dels == {i \in Steps("deleteenv") : i > g} IN
        /\ \A i \in dels : trace[i].args[1] \in Listed(g)
        /\ \A i, j \in dels : i # j => trace[i].args[1] # trace[j].args[1]
        /\ \A i \in dels : trace[i].err # Nil => \A j \in dels : j <= i
        /\ (pc \notin {"deleteenv", "done"} \/ (pc = "done" /\ exitCode = 0)) =>
               {trace[i].args[1] : i \in dels} = Listed(g)

\* what C7 calls the response that lets Trigger succeed
BuildCreated(resp) ==
    /\ ~resp.err
    /\ resp.status = 201
    /\ resp.body.kind = "object"
    /\ DOMAIN resp.body.obj = {"status", "body"}
    /\ resp.body.obj.status = 200
    /\ resp.body.obj.body = "Build created"

\* C7: Trigger returns success only on a 201 response whose body carries
\* status 200 and body "Build created"; every other response, a 201 with
\* another body included, yields an error.
C7_TriggerOnlyOnBuildCreated ==
    \A i \in Steps("trigger") :
        ~BuildCreated(trace[i].resp) => trace[i].err # Nil

\* Trigger has failed on a 201 response with another body, and on a status
\* other than 201
C7_Witness ==
    /\ \E i \in Steps("trigger") :
         /\ trace[i].resp.status = 201 /\ trace[i].resp.body.kind = "object"
         /\ ~BuildCreated(trace[i].resp) /\ trace[i].err # Nil
    /\ \E i \in Steps("trigger") :
         /\ ~trace[i].resp.err /\ trace[i].resp.status # 201 /\ trace[i].err # Nil

\* percent-encoding of one path segment, as C8 describes it
RECURSIVE PercentEncoded(_)
PercentEncoded(seg) ==
    IF seg = <<>> THEN <<>>
    ELSE (IF Head(seg) = " " THEN <<"%","2","0">> ELSE <<Head(seg)>>)
         \o PercentEncoded(Tail(seg))

\* the URI C8 describes
C8_URI(p, resource, action) ==
    <<"h","t","t","p","s",":","/","/","c","i","r","c","l","e","c","i",".","c","o","m",
      "/","a","p","i","/","v","1",".","1">>
    \o <<"/">> \o PercentEncoded(resource)
    \o <<"/">> \o PercentEncoded(p.vcsType)
    \o <<"/">> \o PercentEncoded(p.owner)
    \o <<"/">> \o PercentEncoded(p.projectName)
    \o <<"/">> \o PercentEncoded(action)
    \o <<"?","c","i","r","c","l","e","-","t","o","k","e","n","=">> \o p.token

\* C8: the URI fmtURI builds is the base, then the segments resource,
\* vcsType, owner, projectName, action, then the query circle-token=token,
\* with a space in a segment encoded as %20.
C8_URIShape ==
    \A i \in Steps("fmtURI") :
        trace[i].req.uri = C8_URI(project, trace[i].args[1], trace[i].args[2])

\* C9: while the SSH keys are added, no key file handle is open when the
\* addSSHKey request is issued or when the next key file is opened, and at
\* most one handle is open at any time.
C9_HandleReleasedAfterRead ==
    /\ Cardinality(openFiles) <= 1
    /\ pc \in {"addkey", "openkey"} => openFiles = {}

\* C10: the path of a Deleteenv request contains the name of the variable,
\* so two Deleteenv calls with different names address different paths.
C10_DeletePathHasName ==
    /\ \A i \in Steps("deleteenv") :
         Contains(BeforeQuery(trace[i].req.uri), trace[i].args[1])
    /\ \A i, j \in Steps("deleteenv") :
         trace[i].args[1] # trace[j].args[1] =>
             BeforeQuery(trace[i].req.uri) # BeforeQuery(trace[j].req.uri)

\* C11: Setenv returns success exactly when the transport call succeeded and
\* the status of the response is 201; on any other status and on a transport
\* failure it returns an error that carries the name of the variable.
C11_SetenvIff201 ==
    \A i \in Steps("setenv") :
        /\ trace[i].err = Nil <=>
               (~trace[i].resp.err /\ trace[i].resp.status = StatusCreated)
        /\ trace[i].err # Nil => trace[i].err.name = trace[i].args[1]

\* Setenv has succeeded on a 201, and has failed on another status with an
\* error that names the variable
C11_Witness ==
    /\ \E i \in Steps("setenv") :
         trace[i].err = Nil /\ trace[i].resp.status = StatusCreated
    /\ \E i \in Steps("setenv") :
         /\ ~trace[i].resp.err /\ trace[i].resp.status # StatusCreated
         /\ trace[i].err # Nil /\ trace[i].err.name = sFOO

\* C12: a run with unfollow requested issues exactly one request, the POST
\* to the unfollow URI, and is then over: no other step is taken, whatever
\* the canonical and trigger flags and whatever the config lists.
C12_UnfollowOnly ==
    (pc # "client" /\ flags.unfollow) =>
        /\ pc \in {"main", "done"}
        /\ Len(trace) = (IF pc = "done" THEN 1 ELSE 0)
        /\ \A i \in DOMAIN trace :
             /\ trace[i].step = "unfollow"
             /\ trace[i].req.method = "POST"
             /\ trace[i].req.uri = fmtURI(project, sProject, sUnfollow)

\* an unfollow run that is over, with canonical and trigger requested and a
\* config that lists variables and keys
C12_Witness ==
    /\ pc = "done" /\ flags.unfollow /\ flags.canonical /\ flags.trigger
    /\ DOMAIN config.EnvVars # {} /\ DOMAIN config.SSHKeys # {}
    /\ Len(trace) = 1 /\ trace[1].step = "unfollow"

\* C13: Getenvs, answered with status 200 and a JSON sequence of name/value
\* records of distinct names, returns without error a mapping of exactly the
\* listed names, each to its value; on another status, a transport failure or
\* a body that is not such a sequence it returns an error.
C13_GetenvsReturnsRecords ==
    (pc = "client" /\ trace # <<>> /\ Last.step = "getenvs") =>
        LET resp == Last.resp
            listed == ~resp.err /\ resp.status = StatusOK /\ resp.body.kind = "array"
        IN IF listed
           THEN /\ Last.err = Nil
                /\ DOMAIN envVars = Listed(Len(trace))
                /\ \A k \in DOMAIN resp.body.items :
                     envVars[resp.body.items[k].name] = resp.body.items[k].value
           ELSE Last.err # Nil

\* C14: the request of AddSSHKey is a POST whose JSON body has the field
\* hostname with the given name and the field private_key with the given key
\* content, and AddSSHKey returns success only on a response of status 201.
C14_SSHKeyBody ==
    \A i \in Steps("addsshkey") :
        LET body == trace[i].req.body IN
        /\ trace[i].req.method = "POST"
        /\ body.kind = "object"
        /\ DOMAIN body.obj = {"hostname", "private_key"}
        /\ body.obj.hostname = trace[i].args[1]
        /\ body.obj.private_key = KeyContentOf(KeyPathOf(trace[i].args[1]))
        /\ trace[i].err = Nil =>
               (~trace[i].resp.err /\ trace[i].resp.status = StatusCreated)

\* the steps that are calls of the project client
ClientSteps ==
    {"follow", "unfollow", "setenv", "getenvs", "deleteenv", "addsshkey", "trigger"}

\* C15: every call of the project client issues one HTTP request, a request
\* that failed is not issued again, and Clearenv issues one list request and
\* then, only after the list has succeeded, at most one delete request per
\* listed variable.
C15_OneRequestNoRetry ==
    pc # "client" =>
        /\ \A i \in DOMAIN trace :
             trace[i].step \in ClientSteps => IsRequest(trace[i])
        /\ \A i, j \in DOMAIN trace :
             (i < j /\ IsRequest(trace[i]) /\ trace[i].err # Nil) =>
                 ~(trace[j].step = trace[i].step /\ trace[j].args = trace[i].args)
        /\ Cardinality(Steps("getenvs")) <= 1
        /\ \A d \in Steps("deleteenv") :
             \E g \in Steps("getenvs") :
                /\ g < d /\ trace[g].err = Nil
                /\ Cardinality(Steps("deleteenv")) <= Cardinality(Listed(g))
        /\ \A d1, d2 \in Steps("deleteenv") :
             d1 # d2 => trace[d1].args # trace[d2].args

\* a run that listed two variables, issued one delete request, and ended
\* when that request failed
C15_Witness ==
    /\ pc = "done" /\ trace # <<>>
    /\ \E g \in Steps("getenvs") : trace[g].err = Nil /\ Cardinality(Listed(g)) = 2
    /\ Cardinality(Steps("deleteenv")) = 1
    /\ Last.step = "deleteenv" /\ Last.err # Nil

\* C16: Trigger returns success when the build POST is answered with status
\* 201 and a body of status 200 and body "Build created"; a run that came as
\* far as the build request and got that answer ends with exit code 0.
C16_TriggerSucceeds ==
    pc # "client" =>
        \A i \in Steps("trigger") :
            BuildCreated(trace[i].resp) =>
                /\ trace[i].err = Nil
                /\ pc = "done" => exitCode = 0

\* C17: no step of a run without canonical is a list request, a DELETE
\* request or a call of ClearSSHKeys, and no step of such a run changes,
\* removes or adds a server-side variable or SSH key that the config does
\* not name.
C17_NoCleaningUnlessCanonical ==
    [][(pc # "client" /\ ~flags.canonical) =>
          /\ trace'[Len(trace')].step \notin {"getenvs", "deleteenv", "clearsshkeys"}
          /\ trace'[Len(trace')].req.method \notin {"GET", "DELETE"}
          /\ \A k \in DOMAIN server.env \ DOMAIN config.EnvVars :
               k \in DOMAIN server'.env /\ server'.env[k] = server.env[k]
          /\ DOMAIN server'.env \subseteq DOMAIN server.env \cup DOMAIN config.EnvVars
          /\ server'.keys \ DOMAIN config.SSHKeys = server.keys \ DOMAIN config.SSHKeys
      ]_vars

\* a run without canonical that has set a configured variable on a server
\* which also holds a variable the config does not name, and ended well
C17_Witness ==
    /\ pc = "done" /\ ~flags.canonical /\ ~flags.unfollow /\ exitCode = 0
    /\ \E i \in Steps("setenv") : trace[i].err = Nil
    /\ Steps("addsshkey") # {}
    /\ DOMAIN server.env \ DOMAIN config.EnvVars # {}

\* the requests of a step that were issued for the name k
RequestsFor(step, k) == {i \in Steps(step) : trace[i].args[1] = k}

\* C18: a run without unfollow that ends with exit code 0 has issued the
\* follow request exactly once, one setEnv request for each variable of the
\* config, with its configured value, and for no other name, one addSSHKey
\* request for each key name of the config and for no other name, and the
\* build request once if trigger is requested and not at all otherwise.
C18_ExitZeroRequests ==
    (pc = "done" /\ exitCode = 0 /\ ~flags.unfollow) =>
        /\ Cardinality(Steps("follow")) = 1
        /\ \A k \in DOMAIN config.EnvVars :
             Cardinality(RequestsFor("setenv", k)) = 1
        /\ \A i \in Steps("setenv") :
             /\ trace[i].args[1] \in DOMAIN config.EnvVars
             /\ trace[i].args[2] = config.EnvVars[trace[i].args[1]]
             /\ trace[i].req.body.obj.name = trace[i].args[1]
             /\ trace[i].req.body.obj.value = trace[i].args[2]
        /\ \A k \in DOMAIN config.SSHKeys :
             Cardinality(RequestsFor("addsshkey", k)) = 1
        /\ \A i \in Steps("addsshkey") :
             trace[i].args[1] \in DOMAIN config.SSHKeys
        /\ Cardinality(Steps("trigger")) = (IF flags.trigger THEN 1 ELSE 0)

\* a run that ended with exit code 0 after two setEnv and two addSSHKey
\* requests and without a build request
C18_Witness ==
    /\ pc = "done" /\ exitCode = 0 /\ ~flags.unfollow
    /\ Cardinality(Steps("setenv")) = 2
    /\ Cardinality(Steps("addsshkey")) = 2
    /\ Steps("trigger") = {}

====
